---- MODULE Spec2Model ----
(***************************************************************************)
(* gostage: a linear pipeline of workers (stages).  The descriptors        *)
(* ([]*Config) are linked into a chain by their SubscribeTo references,    *)
(* unbuffered channels are wired between consecutive stages, every stage   *)
(* instance runs runWorker under a supervisor, and Run waits for a         *)
(* termination cause and then stops the instances one by one.              *)
(*                                                                         *)
(* Indices are 1-based here: linkedWorkers[1] is the code's                *)
(* linkedWorkers[0] (the root).  The instance index n keeps the code's     *)
(* 0-based value.  A channel is named by the order of its make(); 0 is the  *)
(* nil channel.                                                            *)
(***************************************************************************)
EXTENDS Integers, Sequences, FiniteSets, TLC

VARIABLES
    configs,        \* GoStage.configs: the descriptors given to New
    mode,           \* the entry point called: "Run" or "RunAsync"
    linkedWorkers,  \* GoStage.linkedWorkers: [cfg, in, out]
    stopChan,       \* GoStage.stopChan: one stop channel per started instance
    errChan,        \* GoStage.errChan: the supervisor whose channel it is (0: New's)
    inst,           \* the started instances: runWorker's and its supervisor's state
    orchPC,         \* where Run is
    cause,          \* the case Run's select took
    stopIdx,        \* ensureAllWorkerStopped: position in the range over stopChan
    confirm,        \* ensureAllWorkerStopped: confirm
    stopsSent,      \* stop requests handed to an instance
    callbacks,      \* times fn() was called
    produced,       \* values the root's HandleEvent has returned
    consumed        \* inputs the terminal stage's HandleEvent was called with

vars == <<configs, mode, linkedWorkers, stopChan, errChan, inst, orchPC, cause,
          stopIdx, confirm, stopsSent, callbacks, produced, consumed>>

(***************************************************************************)
(* Bounds of the model.                                                    *)
(***************************************************************************)
MaxLen == 3        \* descriptors in a list given to New (builder runs)
MaxInst == 3       \* instances started in a supervised run
MaxItems == 2      \* values the root produces in a run

(***************************************************************************)
(* Program constants.                                                      *)
(***************************************************************************)
DefaultRestart == 1
DefaultSize == 1
\* gs.noDataCount as set by the option WithNoDataCount(2)
noDataCount == 2

Nil == "nil"
\* Worker objects.  "a", "b", "c" are of a type that has the optional Create
\* and Close methods (Consumer in examples/pipeline_test.go); "fn" is a
\* WorkHandler function, which has neither.
Workers == {"a", "b", "c", "fn"}
HasCreate(w) == w # "fn"
HasClose(w) == w # "fn"

Config(w, sub, size, restart) ==
    [Worker |-> w, SubscribeTo |-> sub, Size |-> size, Restart |-> restart]

(***************************************************************************)
(* Pipeline Builder.                                                       *)
(***************************************************************************)
\* findRoot: the first config without SubscribeTo; 0 is the nil *Config.
findRoot(cs) ==
    IF \E j \in 1..Len(cs) : cs[j].SubscribeTo = Nil
    THEN CHOOSE j \in 1..Len(cs) :
            /\ cs[j].SubscribeTo = Nil
            /\ \A h \in 1..(j - 1) : cs[h].SubscribeTo # Nil
    ELSE 0

\* findNext comparing the given config's Worker with c.Worker instead of
\* c.SubscribeTo.
findNextByWorker(cs, cur) ==
    IF \E j \in 1..Len(cs) : cs[j].Worker = cs[cur].Worker
    THEN CHOOSE j \in 1..Len(cs) :
            /\ cs[j].Worker = cs[cur].Worker
            /\ \A h \in 1..(j - 1) : cs[h].Worker # cs[cur].Worker
    ELSE 0

\* findNext: the first config whose SubscribeTo is the given config's Worker.
findNext(cs, cur) ==
    IF \E j \in 1..Len(cs) : cs[j].SubscribeTo = cs[cur].Worker
    THEN CHOOSE j \in 1..Len(cs) :
            /\ cs[j].SubscribeTo = cs[cur].Worker
            /\ \A h \in 1..(j - 1) : cs[h].SubscribeTo # cs[cur].Worker
    ELSE 0

\* The loop of buildLinkedWorkers from the config cur on, with lws linked so
\* far.  findNext is a function of the config, so a chain longer than the list
\* has entered a cycle and the loop never ends: hung.
RECURSIVE buildFrom(_, _, _)
buildFrom(cs, cur, lws) ==
    IF cur = 0 THEN [hung |-> FALSE, lws |-> lws]
    ELSE IF Len(lws) >= Len(cs) THEN [hung |-> TRUE, lws |-> lws]
    ELSE buildFrom(cs, findNext(cs, cur),
                   Append(lws, [cfg |-> cur, in |-> 0, out |-> 0]))

buildLinkedWorkers(cs) == buildFrom(cs, findRoot(cs), <<>>)

BuildLinkedWorkers ==
    /\ orchPC = "new"
    /\ LET r == buildLinkedWorkers(configs) IN
        /\ orchPC' = IF r.hung THEN "hung" ELSE "built"
        /\ linkedWorkers' = r.lws
    /\ UNCHANGED <<configs, mode, stopChan, errChan, inst, cause, stopIdx, confirm,
                   stopsSent, callbacks, produced, consumed>>

(***************************************************************************)
(* Channel Wiring.                                                         *)
(***************************************************************************)
\* setupChannels: position 1 makes its out; the last position (when it is not
\* position 1) takes the previous out as its in; a middle one does both.  The
\* channels are numbered in the order they are made, which is the position.
setupChannels(lws) ==
    [i \in 1..Len(lws) |->
        IF i = 1 THEN [lws[i] EXCEPT !.out = 1]
        ELSE IF i = Len(lws) THEN [lws[i] EXCEPT !.in = i - 1]
        ELSE [lws[i] EXCEPT !.in = i - 1, !.out = i]]

SetupChannels ==
    /\ orchPC = "built"
    /\ linkedWorkers' = setupChannels(linkedWorkers)
    /\ orchPC' = "wired"
    /\ UNCHANGED <<configs, mode, stopChan, errChan, inst, cause, stopIdx, confirm,
                   stopsSent, callbacks, produced, consumed>>

(***************************************************************************)
(* startWorkers and Supervise.                                             *)
(***************************************************************************)
sizeOf(c) == IF c.Size > 0 THEN c.Size ELSE DefaultSize
restartOf(c) == IF c.Restart > 0 THEN c.Restart ELSE DefaultRestart

\* Supervise: a supervisor with restartCount 0 whose monitor has started the
\* first work(), which is at the top of runWorker's loop.  The struct literal
\* sets maxRestart, restartChan, errChan and workerFunc: the logger argument
\* is not stored, so the supervisor's logger field is the nil interface.
Supervise(i, n, maxRestart) ==
    [stage |-> i, n |-> n, pc |-> "select", item |-> 0, errNoDataCount |-> 0,
     maxRestart |-> maxRestart, restartCount |-> 0, mon |-> "range",
     logger |-> Nil, starts |-> 1, closed |-> 0]

\* startWorkers calling Create without looking whether the worker has it.
RECURSIVE startFromUnchecked(_, _, _, _)
startFromUnchecked(cs, lws, i, acc) ==
    IF i.stage > Len(lws) THEN [panic |-> FALSE, insts |-> acc]
    ELSE LET c == cs[lws[i.stage].cfg] IN
         IF i.n >= sizeOf(c)
         THEN startFromUnchecked(cs, lws, [stage |-> i.stage + 1, n |-> 0], acc)
         ELSE startFromUnchecked(cs, lws, [stage |-> i.stage, n |-> i.n + 1],
                                 Append(acc, Supervise(i.stage, i.n, restartOf(c))))

\* The two loops of startWorkers from (i, n) on.  callWorkerCreate panics for
\* an instance n # 0 of a worker without Create; the instances supervised
\* before it are acc.
RECURSIVE startFrom(_, _, _, _)
startFrom(cs, lws, i, acc) ==
    IF i.stage > Len(lws) THEN [panic |-> FALSE, insts |-> acc]
    ELSE LET c == cs[lws[i.stage].cfg] IN
         IF i.n >= sizeOf(c)
         THEN startFrom(cs, lws, [stage |-> i.stage + 1, n |-> 0], acc)
         ELSE IF i.n # 0 /\ ~HasCreate(c.Worker)
         THEN [panic |-> TRUE, insts |-> acc]
         ELSE startFrom(cs, lws, [stage |-> i.stage, n |-> i.n + 1],
                        Append(acc, Supervise(i.stage, i.n, restartOf(c))))

startWorkers(cs, lws) == startFrom(cs, lws, [stage |-> 1, n |-> 0], <<>>)

\* startWorkers putting each new stop channel in front of s.stopChan.
StartWorkersPrepend ==
    /\ orchPC = "wired"
    /\ LET r == startWorkers(configs, linkedWorkers) IN
        /\ inst' = r.insts
        /\ stopChan' = [k \in 1..Len(r.insts) |-> Len(r.insts) + 1 - k]
        /\ errChan' = Len(r.insts)
        /\ orchPC' = IF r.panic THEN "panicked" ELSE "wait"
    /\ UNCHANGED <<configs, mode, linkedWorkers, cause, stopIdx, confirm,
                   stopsSent, callbacks, produced, consumed>>

\* run(): startWorkers runs on the caller's goroutine, so the panic of
\* callWorkerCreate is not recovered by any supervisor: the process ends.
StartWorkers ==
    /\ orchPC = "wired"
    /\ LET r == startWorkers(configs, linkedWorkers) IN
        /\ inst' = r.insts
        /\ stopChan' = [k \in 1..Len(r.insts) |-> k]
        /\ errChan' = Len(r.insts)
        /\ orchPC' = IF r.panic THEN "panicked" ELSE "wait"
    /\ UNCHANGED <<configs, mode, linkedWorkers, cause, stopIdx, confirm,
                   stopsSent, callbacks, produced, consumed>>

(***************************************************************************)
(* runWorker: one stage instance k (an index of inst and of stopChan).     *)
(***************************************************************************)
Insts == 1..Len(inst)
N == Len(linkedWorkers)
isRoot(k) == inst[k].stage = 1
isTerminal(k) == inst[k].stage # 1 /\ inst[k].stage = N
workerOf(k) == configs[linkedWorkers[inst[k].stage].cfg].Worker

\* The process is alive and its goroutines run.
Alive == orchPC \in {"wait", "stop", "ack", "callback", "done"}

\* The panics of instance w's transform so far: those the monitor has counted
\* and the one whose recovery is under way.
faults(w) == w.restartCount + (IF w.pc = "panicked" THEN 1 ELSE 0)

\* The transform invocations that have panicked so far, from instance k on.
RECURSIVE faultsFrom(_)
faultsFrom(k) ==
    IF k > Len(inst) THEN 0
    ELSE faults(inst[k]) + faultsFrom(k + 1)

\* The outcomes a transform invocation may have now.
MayBe(o) == o = "ok" => produced < MaxItems

\* Run's position after a step that leaves instance w as it is: the process
\* is gone when the recovery of a panic has itself panicked.
afterStep(w) == IF w.pc = "panicked" /\ w.logger = Nil THEN "crashed" ELSE orchPC

\* ensureAllWorkerStopped is blocked in `stop <- done` on instance k's channel.
StopPending(k) == orchPC = "stop" /\ stopChan[stopIdx] = k

\* The stop case taken also by an instance that is sending its output.
RecvStopWhileSending(k) ==
    /\ orchPC \in {"stop"}
    /\ inst[k].pc \in {"select", "quitWait", "send"}
    /\ stopChan[stopIdx] = k
    /\ inst' = [inst EXCEPT ![k].pc = "stopped",
                            ![k].closed = @ + (IF HasClose(configs[linkedWorkers[inst[k].stage].cfg].Worker) THEN 1 ELSE 0)]
    /\ orchPC' = "ack"
    /\ stopsSent' = stopsSent + 1
    /\ UNCHANGED <<configs, mode, linkedWorkers, stopChan, errChan, cause, stopIdx,
                   confirm, callbacks, produced, consumed>>

\* case done := <-stop, in the loop's select (all three loop shapes) and in the
\* select that follows the root's quit notification; then callWorkerClose(w),
\* which calls Close when the worker has it, and the instance is at
\* done <- struct{}{}.
RecvStop(k) ==
    /\ Alive
    /\ inst[k].pc \in {"select", "quitWait"}
    /\ StopPending(k)
    /\ inst' = [inst EXCEPT ![k].pc = "stopped",
                            ![k].closed = @ + (IF HasClose(workerOf(k)) THEN 1 ELSE 0)]
    /\ orchPC' = "ack"
    /\ stopsSent' = stopsSent + 1
    /\ UNCHANGED <<configs, mode, linkedWorkers, stopChan, errChan, cause, stopIdx,
                   confirm, callbacks, produced, consumed>>

\* The confirmation with ensureAllWorkerStopped returning at the first one.
AckReturnsAtFirst(k) ==
    /\ orchPC \in {"ack"}
    /\ inst[k].pc = "stopped"
    /\ stopChan[stopIdx] = k
    /\ inst' = [inst EXCEPT ![k].pc = "exited"]
    /\ confirm' = confirm + 1
    /\ orchPC' = "callback"
    /\ UNCHANGED <<configs, mode, linkedWorkers, stopChan, errChan, cause, stopIdx,
                   stopsSent, callbacks, produced, consumed>>

\* done <- struct{}{}; close(done); return, received by the `for range done`
\* of ensureAllWorkerStopped: confirm++, and the loop returns at the last
\* confirmation or moves on to the next stop channel.
Ack(k) ==
    /\ Alive
    /\ inst[k].pc = "stopped"
    /\ orchPC = "ack"
    /\ stopChan[stopIdx] = k
    /\ inst' = [inst EXCEPT ![k].pc = "exited"]
    /\ confirm' = confirm + 1
    /\ IF confirm + 1 = Len(stopChan)
       THEN orchPC' = "callback" /\ UNCHANGED stopIdx
       ELSE orchPC' = "stop" /\ stopIdx' = stopIdx + 1
    /\ UNCHANGED <<configs, mode, linkedWorkers, stopChan, errChan, cause,
                   stopsSent, callbacks, produced, consumed>>

\* The monitor's range has received from restartChan: restartCount++; then
\* either the error is due on errChan (the monitor returns once it is taken),
\* or go s.work() starts runWorker afresh.
monitor(w) ==
    IF w.restartCount + 1 > w.maxRestart
    THEN [w EXCEPT !.restartCount = @ + 1, !.pc = "dead", !.item = 0,
                   !.mon = "errSend"]
    ELSE [w EXCEPT !.restartCount = @ + 1, !.pc = "select", !.item = 0,
                   !.errNoDataCount = 0, !.starts = @ + 1]

\* A panic of the transform ends runWorker and runs the deferred function of
\* work(): recover() takes the panic, then s.logger.Error(...) is called and
\* after it restartChan is sent to.  On the nil logger the call is a nil
\* dereference: a second panic, in the deferred function, that nothing
\* recovers; it ends the process before the monitor hears of the first.
work(w) ==
    IF w.logger = Nil THEN [w EXCEPT !.pc = "panicked", !.item = 0]
    ELSE monitor(w)

\* The outcomes of a transform: a value, ErrNoData, ErrQuit, another error,
\* a panic.
Outcomes == {"ok", "nodata", "quit", "err", "panic"}

\* The root's loop sleeping only when the count has passed noDataCount.
rootInvokeLate(w, o, v) ==
    CASE o = "ok" -> [w EXCEPT !.pc = "send", !.item = v]
      [] o = "nodata" ->
            IF w.errNoDataCount + 1 > noDataCount
            THEN [w EXCEPT !.pc = "sleep", !.errNoDataCount = @ + 1]
            ELSE [w EXCEPT !.pc = "select", !.errNoDataCount = @ + 1]
      [] o = "quit" -> [w EXCEPT !.pc = "quitSend"]
      [] o = "err" -> [w EXCEPT !.pc = "select"]
      [] o = "panic" -> work(w)

\* Root: output, err := w.HandleEvent(nil) and what the loop does with it.
rootInvoke(w, o, v) ==
    CASE o = "ok" -> [w EXCEPT !.pc = "send", !.item = v]
      [] o = "nodata" ->
            IF w.errNoDataCount + 1 >= noDataCount
            THEN [w EXCEPT !.pc = "sleep", !.errNoDataCount = @ + 1]
            ELSE [w EXCEPT !.pc = "select", !.errNoDataCount = @ + 1]
      [] o = "quit" -> [w EXCEPT !.pc = "quitSend"]
      [] o = "err" -> [w EXCEPT !.pc = "select"]
      [] o = "panic" -> work(w)

\* The root's select taking default whether or not a stop request waits.
RootDefaultBlind(k) ==
    /\ orchPC \in {"wait", "stop", "ack", "callback", "done"}
    /\ inst[k].stage = 1
    /\ inst[k].pc = "select"
    /\ inst' = [inst EXCEPT ![k].pc = "default"]
    /\ UNCHANGED <<configs, mode, linkedWorkers, stopChan, errChan, orchPC, cause,
                   stopIdx, confirm, stopsSent, callbacks, produced, consumed>>

\* Root: the select finds no sender on stop and takes default; the instance
\* is on its way to the call of HandleEvent.
RootDefault(k) ==
    /\ Alive
    /\ isRoot(k)
    /\ inst[k].pc = "select"
    /\ ~StopPending(k)
    /\ inst' = [inst EXCEPT ![k].pc = "default"]
    /\ UNCHANGED <<configs, mode, linkedWorkers, stopChan, errChan, orchPC, cause,
                   stopIdx, confirm, stopsSent, callbacks, produced, consumed>>

\* Root: the call of HandleEvent(nil), from its beginning to what the loop
\* does with what it returns.
RootInvoke(k, o) ==
    /\ Alive
    /\ isRoot(k)
    /\ inst[k].pc = "default"
    /\ MayBe(o)
    /\ inst' = [inst EXCEPT ![k] = rootInvoke(@, o, produced + 1)]
    /\ orchPC' = afterStep(inst'[k])
    /\ produced' = IF o = "ok" THEN produced + 1 ELSE produced
    /\ UNCHANGED <<configs, mode, linkedWorkers, stopChan, errChan, cause,
                   stopIdx, confirm, stopsSent, callbacks, consumed>>

\* time.Sleep(s.noDataCountSleep) returns; errNoDataCount = 0.
Wake(k) ==
    /\ Alive
    /\ inst[k].pc = "sleep"
    /\ inst' = [inst EXCEPT ![k].pc = "select", ![k].errNoDataCount = 0]
    /\ UNCHANGED <<configs, mode, linkedWorkers, stopChan, errChan, orchPC, cause,
                   stopIdx, confirm, stopsSent, callbacks, produced, consumed>>

\* The middle loop sending its output only when err is nil.
middleInvokeOnSuccess(w, input, o) ==
    CASE o = "ok" -> [w EXCEPT !.pc = "send", !.item = input]
      [] o = "err" -> [w EXCEPT !.pc = "select", !.item = 0]
      [] o = "panic" -> work(w)

\* Middle: output, err := w.HandleEvent(input); the output is sent whether or
\* not err is nil.  The transform passes its input through, and returns the
\* nil output (0) with an error.
middleInvoke(w, input, o) ==
    CASE o = "ok" -> [w EXCEPT !.pc = "send", !.item = input]
      [] o = "err" -> [w EXCEPT !.pc = "send", !.item = 0]
      [] o = "panic" -> work(w)

\* Terminal: _, err := w.HandleEvent(input); the output is dropped.
terminalInvoke(w, input, o) ==
    CASE o \in {"ok", "err"} -> [w EXCEPT !.pc = "select", !.item = 0]
      [] o = "panic" -> work(w)

\* s.linkedWorkers[i].out <- output of instance k, taken by case input :=
\* <-s.linkedWorkers[i].in of an instance r of the next stage, which calls
\* its HandleEvent with it.
Send(k, r, o) ==
    /\ Alive
    /\ inst[k].pc = "send"
    /\ inst[r].pc = "select"
    /\ inst[r].stage # 1
    /\ linkedWorkers[inst[k].stage].out # 0
    /\ linkedWorkers[inst[k].stage].out = linkedWorkers[inst[r].stage].in
    /\ o \in {"ok", "err", "panic"}
    /\ inst' = [inst EXCEPT
                  ![k].pc = "select", ![k].item = 0,
                  ![r] = IF isTerminal(r) THEN terminalInvoke(@, inst[k].item, o)
                         ELSE middleInvoke(@, inst[k].item, o)]
    /\ orchPC' = afterStep(inst'[r])
    /\ consumed' = IF isTerminal(r) THEN Append(consumed, inst[k].item)
                   ELSE consumed
    /\ UNCHANGED <<configs, mode, linkedWorkers, stopChan, errChan, cause,
                   stopIdx, confirm, stopsSent, callbacks, produced>>

(***************************************************************************)
(* Run: the select, ensureAllWorkerStopped, fn().                          *)
(***************************************************************************)
\* Entering ensureAllWorkerStopped: with no stop channel the range is empty.
enterStop == IF stopChan = <<>> THEN "callback" ELSE "stop"

\* case <-s.ctx.Done(), of Run and of RunAsync: the context is cancelled
\* while the select waits.  The case has no body.
WaitCtxDone ==
    /\ orchPC = "wait"
    /\ cause' = "external"
    /\ orchPC' = enterStop
    /\ stopIdx' = 1
    /\ UNCHANGED <<configs, mode, linkedWorkers, stopChan, errChan, inst, confirm,
                   stopsSent, callbacks, produced, consumed>>

\* case <-stopSignals, of Run only: SIGINT or SIGTERM is notified while Run
\* waits.  The case has no body.
WaitSignal ==
    /\ mode = "Run"
    /\ orchPC = "wait"
    /\ cause' = "external"
    /\ orchPC' = enterStop
    /\ stopIdx' = 1
    /\ UNCHANGED <<configs, mode, linkedWorkers, stopChan, errChan, inst, confirm,
                   stopsSent, callbacks, produced, consumed>>

\* RunAsync neither calls signal.Notify nor has the case: SIGINT or SIGTERM
\* while its goroutine waits has the default effect, the process is killed.
AsyncSignal ==
    /\ mode = "RunAsync"
    /\ orchPC = "wait"
    /\ orchPC' = "killed"
    /\ UNCHANGED <<configs, mode, linkedWorkers, stopChan, errChan, inst, cause,
                   stopIdx, confirm, stopsSent, callbacks, produced, consumed>>

\* case err := <-s.quitChan, from the root instance k blocked in
\* s.quitChan <- err, which goes on to its select on stop; or
\* case err := <-s.errChan, when s.errChan, the channel the last Supervise
\* returned, is instance k's and its monitor is blocked in
\* s.errChan <- ErrSupervision.
WaitErr(k) ==
    /\ orchPC = "wait"
    /\ \/ /\ inst[k].pc = "quitSend"
          /\ inst' = [inst EXCEPT ![k].pc = "quitWait"]
          /\ cause' = "quit"
       \/ /\ errChan = k
          /\ inst[k].mon = "errSend"
          /\ inst' = [inst EXCEPT ![k].mon = "returned"]
          /\ cause' = "fatal"
    /\ orchPC' = enterStop
    /\ stopIdx' = 1
    /\ UNCHANGED <<configs, mode, linkedWorkers, stopChan, errChan, confirm,
                   stopsSent, callbacks, produced, consumed>>

\* fn()
Callback ==
    /\ orchPC = "callback"
    /\ callbacks' = callbacks + 1
    /\ orchPC' = "done"
    /\ UNCHANGED <<configs, mode, linkedWorkers, stopChan, errChan, inst, cause,
                   stopIdx, confirm, stopsSent, produced, consumed>>

(***************************************************************************)
(* Specifications.                                                         *)
(***************************************************************************)
InitRest ==
    /\ mode \in {"Run", "RunAsync"}
    /\ linkedWorkers = <<>>
    /\ stopChan = <<>>
    /\ errChan = 0
    /\ inst = <<>>
    /\ orchPC = "new"
    /\ cause = "none"
    /\ stopIdx = 0
    /\ confirm = 0
    /\ stopsSent = 0
    /\ callbacks = 0
    /\ produced = 0
    /\ consumed = <<>>

\* Sequences of length 0..n over S.
SeqsUpTo(S, n) == UNION {[1..m -> S] : m \in 0..n}

\* Builder runs: every list of up to MaxLen descriptors, with any SubscribeTo.
BuildConfigs ==
    SeqsUpTo({Config(w, sub, 0, 0) : w \in Workers \ {"fn"},
                                     sub \in (Workers \ {"fn"}) \cup {Nil}},
             MaxLen)

\* The Restart of a descriptor: 0 (the field left out, or set to 0) or 4 (as
\* in Test_Pipeline).
Restarts == {0, 4}

\* Supervised runs: the chain a <- b <- c or a prefix of it, or the single
\* stage fn, each stage with Size 0 (unset) or 2..MaxInst and all stages with
\* the same Restart, that asks for at most MaxInst instances.  The bound of a
\* supervisor is only stored, so the Restart 4 is given to the pipelines of
\* one instance per stage, which suffices to tell it from the default.
Chain == <<"a", "b", "c">>

chainOf(ws, sizes, restart) ==
    [i \in 1..Len(ws) |->
        Config(ws[i], IF i = 1 THEN Nil ELSE ws[i - 1], sizes[i], restart)]

RECURSIVE sumSizes(_, _)
sumSizes(cs, i) ==
    IF i > Len(cs) THEN 0 ELSE sizeOf(cs[i]) + sumSizes(cs, i + 1)

RunChains == {SubSeq(Chain, 1, m) : m \in 1..Len(Chain)} \cup {<<"fn">>}

RunConfigs ==
    {cs \in {chainOf(ws, sizes, restart) :
                ws \in RunChains,
                sizes \in [1..Len(Chain) -> {0} \cup 2..MaxInst],
                restart \in Restarts} :
        /\ sumSizes(cs, 1) <= MaxInst
        /\ cs[1].Restart # 0 => sumSizes(cs, 1) = Len(cs)}

Init == configs \in RunConfigs /\ InitRest

BuildInit == configs \in BuildConfigs /\ InitRest

BuildNext == BuildLinkedWorkers \/ SetupChannels \/ StartWorkers

\* The steps of the program's own goroutines.
Internal ==
    \/ BuildLinkedWorkers
    \/ SetupChannels
    \/ StartWorkers
    \/ \E k \in Insts : WaitErr(k)
    \/ Callback
    \/ \E k \in Insts : RecvStop(k)
    \/ \E k \in Insts : Ack(k)
    \/ \E k \in Insts : RootDefault(k)
    \/ \E k \in Insts, o \in Outcomes : RootInvoke(k, o)
    \/ \E k \in Insts : Wake(k)
    \/ \E k \in Insts, r \in Insts, o \in Outcomes : Send(k, r, o)

\* With the events that come from outside: cancellation and a signal.
Next == WaitCtxDone \/ WaitSignal \/ AsyncSignal \/ Internal

Spec == Init /\ [][Next]_vars

BuildSpec == BuildInit /\ [][BuildNext]_vars

(***************************************************************************)
(* Properties.                                                             *)
(***************************************************************************)
\* Run has taken a case of its select.
CauseSelected == orchPC \in {"stop", "ack", "callback", "done"}

\* Some root instance's transform has returned ErrQuit.
QuitReturned == \E k \in Insts : inst[k].pc \in {"quitSend", "quitWait"}

\* Every stage runs one instance.
SingleInstances == orchPC \notin {"new", "built", "wired"} /\ Len(inst) = N

\* C1: once Run's select has taken a case, whichever it is, the completion
\* callback is called, and it is called once: the callback has been called
\* once and Run is over, or the run can still take a step (stated for the
\* chains of two stages or more, where the root has a reader).
C1_CallbackRuns ==
    /\ callbacks <= 1
    /\ orchPC = "done" => callbacks = 1
    /\ (N >= 2 /\ CauseSelected /\ orchPC # "done") => ENABLED Next

\* C2: for every started instance, the channel on which its supervisor emits
\* ErrSupervision (the errChan its Supervise call made) is the channel Run's
\* select reads, so the exhaustion of any instance can end Run's wait.
C2_AnyExhaustionDelivered ==
    \A k \in Insts : orchPC = "wait" => errChan = k

\* C3: an instance supervised with bound R is started once and once more per
\* fault of its transform while no more than R have occurred; the R+1-th
\* fault emits the error, and then the loop has been started exactly R + 1
\* times, the instance is dead and is not started again.
C3_RestartBound ==
    \A k \in Insts :
        LET w == inst[k]
            R == w.maxRestart IN
        /\ w.starts <= R + 1
        /\ faults(w) <= R => (w.starts = faults(w) + 1 /\ w.mon = "range"
                              /\ w.pc # "dead")
        /\ faults(w) > R => (w.starts = R + 1 /\ faults(w) = R + 1
                             /\ w.mon \in {"errSend", "returned"}
                             /\ w.pc = "dead")

\* C4: when a root transform has returned ErrQuit, no cancellation or signal
\* was taken and no transform has panicked, the run reaches its completion
\* callback: Run is over, or one of the program's goroutines can take a step.
\* Stated for the chains of two stages or more, where the root has a reader.
C4_QuitCompletes ==
    (Alive /\ N >= 2 /\ QuitReturned /\ cause # "external" /\ faultsFrom(1) = 0) =>
        (orchPC = "done" \/ ENABLED Internal)

\* C5: ensureAllWorkerStopped hands out the stop requests one at a time: a
\* stop request is sent only when every earlier one has been confirmed, there
\* are never more than Len(stopChan) of them, and the callback is reached only
\* after Len(stopChan) requests and Len(stopChan) confirmations.
C5_OneAtATime ==
    /\ confirm <= stopsSent
    /\ stopsSent <= confirm + 1
    /\ stopsSent <= Len(stopChan)
    /\ orchPC = "stop" => (stopsSent = confirm /\ stopIdx = confirm + 1)
    /\ orchPC = "ack" => (stopsSent = confirm + 1 /\ stopIdx = stopsSent)
    /\ (orchPC \in {"callback", "done"} \/ callbacks > 0) =>
            (stopsSent = Len(stopChan) /\ confirm = Len(stopChan))
    /\ Cardinality({k \in Insts : inst[k].pc = "exited"}) = confirm

C5_Witness ==
    /\ orchPC = "done"
    /\ callbacks = 1
    /\ Len(stopChan) >= 3
    /\ confirm = Len(stopChan)

\* No middle stage has replaced a value by the nil output of a failed call.
NoNilForwarded ==
    /\ \A j \in 1..Len(consumed) : consumed[j] # 0
    /\ \A k \in Insts : inst[k].pc = "send" => inst[k].item # 0

\* C6: with one instance per stage, no panic and transforms that pass their
\* input on, the terminal transform is called with the root's values in order,
\* none lost or repeated; all of them before Run takes the quit notification;
\* and once the root has returned ErrQuit the callback is reached, once.
C6_OrderedDelivery ==
    (Alive /\ SingleInstances /\ N >= 2 /\ faultsFrom(1) = 0 /\ NoNilForwarded) =>
        /\ Len(consumed) <= produced
        /\ \A j \in 1..Len(consumed) : consumed[j] = j
        /\ cause = "quit" => Len(consumed) = produced
        /\ orchPC = "done" => (Len(consumed) = produced /\ callbacks = 1)
        /\ QuitReturned => (orchPC = "done" \/ ENABLED Next)

\* The descriptors without SubscribeTo.
Roots(cs) == {j \in 1..Len(cs) : cs[j].SubscribeTo = Nil}

\* The channels made by setupChannels.
Channels ==
    ({linkedWorkers[i].in : i \in 1..N} \cup {linkedWorkers[i].out : i \in 1..N})
        \ {0}

\* C7: after setupChannels, a chain of N >= 1 stages has N - 1 channels, the
\* out of each stage is the in of the next, the root has no in and the last
\* stage has no out.
C7_Wiring ==
    (orchPC \in {"wired", "wait", "panicked"} /\ N >= 1) =>
        /\ Cardinality(Channels) = N - 1
        /\ \A i \in 1..(N - 1) :
              linkedWorkers[i].out # 0 /\ linkedWorkers[i].out = linkedWorkers[i + 1].in
        /\ linkedWorkers[1].in = 0
        /\ linkedWorkers[N].out = 0

\* C8: with no descriptor or more than one descriptor without SubscribeTo, the
\* builder fails: the run goes no further and no instance is started.
C8_RootAmbiguity ==
    Cardinality(Roots(configs)) # 1 =>
        (orchPC \notin {"built", "wired", "wait"} /\ inst = <<>>)

\* A single chain: some order of all the descriptors starts at the only
\* descriptor without SubscribeTo and has every next descriptor subscribe to
\* the worker before it; the workers are pairwise distinct.
IsChainOrder(cs, p) ==
    /\ \A a, b \in 1..Len(cs) : a # b => p[a] # p[b]
    /\ cs[p[1]].SubscribeTo = Nil
    /\ \A i \in 1..(Len(cs) - 1) : cs[p[i + 1]].SubscribeTo = cs[p[i]].Worker

ValidChain(cs) ==
    /\ Len(cs) >= 1
    /\ Cardinality(Roots(cs)) = 1
    /\ \A a, b \in 1..Len(cs) : a # b => cs[a].Worker # cs[b].Worker
    /\ \E p \in [1..Len(cs) -> 1..Len(cs)] : IsChainOrder(cs, p)

\* The workers of the chain in its order, from the set of descriptors alone.
ChainWorkers(S) ==
    CHOOSE ws \in [1..Cardinality(S) -> {c.Worker : c \in S}] :
        /\ \A a, b \in 1..Cardinality(S) : a # b => ws[a] # ws[b]
        /\ \E c \in S : c.Worker = ws[1] /\ c.SubscribeTo = Nil
        /\ \A i \in 1..(Cardinality(S) - 1) :
              \E c \in S : c.Worker = ws[i + 1] /\ c.SubscribeTo = ws[i]

\* C9: for a valid single chain, in whatever order the descriptors are listed,
\* buildLinkedWorkers ends and links every descriptor once, in the order of the
\* chain: the root, then at each position the subscriber of the one before.
C9_ChainOrder ==
    (ValidChain(configs) /\ orchPC # "new") =>
        /\ orchPC # "hung"
        /\ N = Len(configs)
        /\ [i \in 1..N |-> configs[linkedWorkers[i].cfg].Worker]
              = ChainWorkers({configs[j] : j \in 1..Len(configs)})

C9_Witness ==
    /\ ValidChain(configs)
    /\ Len(configs) = 3
    /\ configs[3].SubscribeTo = Nil
    /\ configs[1].SubscribeTo = configs[2].Worker
    /\ orchPC = "wired"
    /\ [i \in 1..N |-> linkedWorkers[i].cfg] = <<3, 2, 1>>

\* A linked stage asks for more than one instance of a worker without Create.
MissingFactory ==
    \E i \in 1..N : LET c == configs[linkedWorkers[i].cfg] IN
                        sizeOf(c) > 1 /\ ~HasCreate(c.Worker)

\* C10 (as claimed): a missing Create is reported as an error of the run, not
\* as a panic nobody recovers.
C10_ReportedAsError == MissingFactory => orchPC # "panicked"

\* C10 (amended): startWorkers ends in the unrecovered panic of
\* callWorkerCreate exactly when a linked stage asks for more than one
\* instance of a worker without Create; Run then never waits and never calls
\* the callback, and the instances before the offending one were started.
C10_StartupPanics ==
    /\ orchPC \in {"wait", "stop", "ack", "callback", "done"} => ~MissingFactory
    /\ orchPC = "panicked" =>
          /\ MissingFactory
          /\ callbacks = 0
          /\ cause = "none"
          /\ Len(inst) >= 1
          /\ LET c == configs[linkedWorkers[inst[Len(inst)].stage].cfg] IN
                ~HasCreate(c.Worker) /\ inst[Len(inst)].n = 0

C10_Witness == orchPC = "panicked" /\ Len(inst) = 1 /\ sizeOf(configs[1]) > 1

\* The no-data counter and the sleep, in a state: an instance sleeps only as a
\* root whose count has reached noDataCount, and outside the sleep the count is
\* below noDataCount; only a root counts.
BackoffState ==
    \A k \in Insts :
        /\ inst[k].pc = "sleep" =>
                (isRoot(k) /\ inst[k].errNoDataCount = noDataCount)
        /\ inst[k].pc # "sleep" => inst[k].errNoDataCount < noDataCount
        /\ ~isRoot(k) => inst[k].errNoDataCount = 0

\* The no-data counter and the sleep, in a step of instance k: the count
\* changes only by one more ErrNoData (+1, in the select's default) or by the
\* end of the sleep (to 0); the sleep is entered only by an ErrNoData, and by
\* the one that brings the count to noDataCount.
BackoffStep(k) ==
    LET w == inst[k]
        v == inst'[k] IN
    /\ v.errNoDataCount # w.errNoDataCount =>
            \/ w.pc = "default" /\ v.errNoDataCount = w.errNoDataCount + 1
            \/ w.pc = "sleep" /\ v.pc = "select" /\ v.errNoDataCount = 0
    /\ v.errNoDataCount = w.errNoDataCount + 1 =>
            (v.pc = "sleep" <=> v.errNoDataCount = noDataCount)
    /\ (v.pc = "sleep" /\ w.pc # "sleep") =>
            v.errNoDataCount = w.errNoDataCount + 1
    /\ (w.pc = "sleep" /\ v.pc # "sleep") => v.errNoDataCount = 0

\* C11: with the threshold T = noDataCount >= 1, a root instance does not
\* sleep while its count of ErrNoData since the last sleep (or the loop's
\* start) is below T; the T-th ErrNoData enters the sleep, after which the
\* count is 0; a value, ErrQuit or another error neither enters the sleep nor
\* changes the count.
C11_BackoffThreshold ==
    /\ []BackoffState
    /\ [][Len(inst') = Len(inst) => \A k \in Insts : BackoffStep(k)]_vars

C11_Witness ==
    \E k \in Insts : /\ inst[k].pc = "sleep"
                      /\ inst[k].errNoDataCount = noDataCount
                      /\ produced >= 1
                      /\ noDataCount >= 2

\* C12: Close is called on an instance only after it has received its stop
\* request and before it acknowledges; it is called once on every instance of
\* a run, and an instance whose transform has faulted is no exception: while
\* its Close is still due, the run can go on towards it.
C12_CleanupOnce ==
    \A k \in Insts :
        LET h == IF HasClose(workerOf(k)) THEN 1 ELSE 0 IN
        /\ inst[k].closed <= 1
        /\ inst[k].pc \in {"stopped", "exited"} => inst[k].closed = h
        /\ inst[k].pc \notin {"stopped", "exited"} => inst[k].closed = 0
        /\ orchPC \in {"callback", "done"} =>
                (inst[k].pc = "exited" /\ inst[k].closed = h)
        /\ (faults(inst[k]) > 0 /\ inst[k].closed < h) => ENABLED Next

\* C13: the fault of an instance leaves its siblings as they were: a sibling
\* that has not faulted and was not stopped is still running, with its
\* counters.
C13_SiblingsUnaffected ==
    \A k, j \in Insts :
        (k # j /\ faults(inst[k]) > 0 /\ faults(inst[j]) = 0
              /\ inst[j].pc \notin {"stopped", "exited"}) => Alive

\* Instance j was started before instance k: an earlier stage, or the same
\* stage and a smaller instance index.
StartedBefore(j, k) ==
    \/ inst[j].stage < inst[k].stage
    \/ inst[j].stage = inst[k].stage /\ inst[j].n < inst[k].n

\* C14: the stop requests go out in the order the stop channels were made, by
\* stage from the root on and by instance index within a stage: when an
\* instance has received its stop request, every instance started before it,
\* so every instance of every earlier stage, has acknowledged and exited.
C14_StopOrder ==
    /\ \A j, k \in Insts : j < k <=> StartedBefore(j, k)
    /\ \A j, k \in Insts :
          (StartedBefore(j, k) /\ inst[k].pc \in {"stopped", "exited"}) =>
              inst[j].pc = "exited"
    /\ \A k \in Insts :
          (orchPC \in {"stop", "ack"} /\ stopChan[stopIdx] = k) =>
              /\ \A j \in Insts : StartedBefore(j, k) => inst[j].pc = "exited"
              /\ \A j \in Insts : StartedBefore(k, j) =>
                                      inst[j].pc \notin {"stopped", "exited"}

C14_Witness ==
    \E j, k \in Insts :
        /\ inst[j].stage = 1 /\ inst[j].n = 1 /\ inst[j].pc = "exited"
        /\ inst[k].stage = 2 /\ inst[k].pc = "stopped"
        /\ confirm = 2

\* A root instance that has returned ErrQuit calls HandleEvent no more, and an
\* instance that was stopped stays stopped, in a step of instance k.
QuitIsFinal(k) ==
    /\ inst[k].pc \in {"quitSend", "quitWait"} =>
            inst'[k].pc \in {"quitSend", "quitWait", "stopped"}
    /\ inst[k].pc \in {"stopped", "exited"} =>
            inst'[k].pc \in {"stopped", "exited"}

\* C15 (as claimed): once the orchestrator has issued the stop request of a
\* root instance, no call of HandleEvent by that instance begins: the instance
\* is not past its select on the way to the call; and a root instance that
\* has returned ErrQuit calls HandleEvent no more.
C15_NoInvocationAfterStop ==
    /\ [](\A k \in Insts : (isRoot(k) /\ StopPending(k)) => inst[k].pc # "default")
    /\ [][Len(inst') = Len(inst) => \A k \in Insts : isRoot(k) => QuitIsFinal(k)]_vars

\* C15 (amended): a root instance's select takes the stop request when it is
\* waiting there and not default; after the request was issued the instance
\* takes default no more, so the only call of HandleEvent that can begin
\* after it is the one whose default was taken before; and a root instance
\* that has returned ErrQuit calls HandleEvent no more.
C15_StopPreempts ==
    [][Len(inst') = Len(inst) =>
        \A k \in Insts : isRoot(k) =>
            /\ (StopPending(k) /\ inst[k].pc = "select") =>
                    inst'[k].pc \in {"select", "stopped"}
            /\ (StopPending(k) /\ inst[k].pc # "default") =>
                    inst'[k].pc # "default"
            /\ QuitIsFinal(k)]_vars

C15_Witness ==
    \E k \in Insts : /\ isRoot(k)
                      /\ inst[k].pc = "stopped"
                      /\ produced \in 1..(MaxItems - 1)
                      /\ cause = "external"

\* C16: every instance is supervised with the Restart its descriptor was
\* given, 0 included (0: no restart, the first fault is fatal for that
\* instance only); the descriptors of these runs are given their Restart.
C16_ConfiguredBound ==
    \A k \in Insts :
        LET c == configs[linkedWorkers[inst[k].stage].cfg] IN
        /\ inst[k].maxRestart = c.Restart
        /\ (c.Restart = 0 /\ faults(inst[k]) > 0) =>
                (inst[k].pc = "dead" /\ inst[k].mon \in {"errSend", "returned"}
                 /\ Alive)

\* Instance k is of a middle stage: neither the root nor the last stage.
isMiddle(k) == inst[k].stage # 1 /\ inst[k].stage # N

\* This step hands the value instance k holds to an instance of the next
\* stage: k is back at its select, and either the terminal transform was
\* called with the value or an instance of the next stage has taken it.
HandsOver(k) ==
    /\ inst[k].pc = "send"
    /\ inst'[k].pc = "select"
    /\ inst'[k].item = 0
    /\ \/ consumed' = Append(consumed, inst[k].item)
       \/ \E r \in Insts :
              /\ inst[r].stage = inst[k].stage + 1
              /\ inst[r].pc = "select"
              /\ \/ inst'[r].pc = "send" /\ inst'[r].item \in {inst[k].item, 0}
                 \/ inst'[r].pc = "panicked"

\* C17: a middle instance whose transform has returned, with or without an
\* error, holds the output and does nothing else before it has sent it to the
\* next stage, once; every value handed to a middle stage makes one of its
\* instances hold an output (or fault); an error of a middle or terminal
\* transform leaves the instance in its loop; an instance of the terminal
\* stage never holds a value to send.
C17_ForwardAlways ==
    /\ [](\A k \in Insts : isTerminal(k) => (inst[k].pc # "send" /\ inst[k].item = 0))
    /\ [](\A k \in Insts : inst[k].item # 0 => inst[k].pc = "send")
    /\ [][Len(inst') = Len(inst) =>
            \A k \in Insts :
                /\ (isMiddle(k) /\ inst[k].pc = "send" /\ inst'[k] # inst[k]) =>
                        HandsOver(k)
                /\ (inst[k].pc = "send" /\ inst'[k].pc # "send" /\ inst[k].stage + 1 < N) =>
                        \E r \in Insts : /\ isMiddle(r)
                                          /\ inst[r].stage = inst[k].stage + 1
                                          /\ inst[r].pc = "select"
                                          /\ inst'[r].pc \in {"send", "panicked"}
                /\ (~isRoot(k) /\ inst[k].pc = "select") =>
                        inst'[k].pc \in {"select", "send", "stopped", "panicked"}]_vars

C17_Witness ==
    /\ N = 3
    /\ \E k \in Insts : isMiddle(k) /\ inst[k].pc = "select"
    /\ \E j \in 1..Len(consumed) : consumed[j] = 0
    /\ \E j \in 1..Len(consumed) : consumed[j] # 0

\* C18: RunAsync's wait ends on the same events as Run's: while the select
\* waits, cancellation and a termination signal can each end it and start
\* ensureAllWorkerStopped, and no event ends the process without it.
C18_SameEvents ==
    /\ orchPC = "wait" => (ENABLED WaitCtxDone /\ ENABLED WaitSignal)
    /\ orchPC # "killed"

\* C19: a root instance that is publishing its quit on s.quitChan has a
\* receiver: Run is at its select, which is the only place s.quitChan is
\* received from, and can take this instance's quit; so the instance gets to
\* the select where it accepts its stop request.
C19_QuitPublished ==
    \A k \in Insts :
        (Alive /\ inst[k].pc = "quitSend") => (orchPC = "wait" /\ ENABLED WaitErr(k))

\* The values in flight: held by an instance that is to send them.
InFlight == {k \in Insts : inst[k].pc = "send"}

\* C20: in a run of two or more stages with no fault, shutdown loses no value:
\* every value the root's transform has returned is held by an instance that
\* will send it on or was given to the terminal transform; an instance is not
\* stopped while it holds one; and when the callback is reached, the terminal
\* transform has been called once for every value the root returned.
C20_NoItemLost ==
    (N >= 2 /\ faultsFrom(1) = 0 /\ orchPC \notin {"new", "built", "wired"}) =>
        /\ Len(consumed) + Cardinality(InFlight) = produced
        /\ \A k \in Insts : inst[k].pc \in {"stopped", "exited"} => inst[k].item = 0
        /\ orchPC \in {"callback", "done"} =>
                (InFlight = {} /\ Len(consumed) = produced)
        /\ \A v \in 1..produced :
                Cardinality({j \in 1..Len(consumed) : consumed[j] = v})
                    + Cardinality({k \in InFlight : inst[k].item = v}) <= 1

C20_Witness ==
    /\ orchPC = "done"
    /\ cause = "external"
    /\ N = 3
    /\ produced = MaxItems
    /\ Len(consumed) = MaxItems
    /\ stopsSent >= 3

====
